---- MODULE Spec2Model ----
(***************************************************************************)
(* open-calc: the recursive-descent expression evaluator                   *)
(* (include/parser/expression_parser.hpp) over the arithmetic primitives   *)
(* of include/computation/standard_calculator.hpp.                         *)
(*                                                                         *)
(* Text is a sequence of one-character strings.  A double is modelled      *)
(* either exactly or opaquely:                                             *)
(*   <<"q", n, d>>            the dyadic rational n/d (d a power of two,   *)
(*                            |n|, d <= MaxMag): a value every IEEE-754    *)
(*                            double operation below computes exactly;     *)
(*   <<"sym", sg, op, l, r>>  a double the model does not compute (an      *)
(*                            inexact, irrational, huge or non-finite      *)
(*                            result), kept as the term that produced it,  *)
(*                            with sg its sign when that is certain        *)
(*                            ("pos", "neg") and "unk" otherwise.          *)
(* A comparison the code makes on an opaque value of unknown sign cannot   *)
(* be decided by the model; it ends the evaluation with an exception of    *)
(* type "unmodelled", which no property below counts as a result of the    *)
(* program.                                                                *)
(***************************************************************************)
EXTENDS Integers, Sequences, FiniteSets, TLC

VARIABLES parser, expression, outcome, registered, calls

vars == <<parser, expression, outcome, registered, calls>>

(***************************************************************************)
(* Bounds of the model.                                                    *)
(***************************************************************************)
\* largest numerator / denominator of an exactly modelled double
MaxMag == 10000
\* longest expression text of the exhaustive input sets
MaxLen == 4
\* evaluate / register calls followed in one session
MaxCalls == 3
\* deepest nesting of production calls the model follows
MaxDepth == 64

(***************************************************************************)
(* <cctype> classification.                                                *)
(***************************************************************************)
DigitChars == <<"0", "1", "2", "3", "4", "5", "6", "7", "8", "9">>

Digits == {DigitChars[i] : i \in 1..10}

DigitVal(c) == (CHOOSE i \in 1..10 : DigitChars[i] = c) - 1

Letters ==
    {"a", "b", "c", "d", "e", "f", "g", "h", "i", "j", "k", "l", "m",
     "n", "o", "p", "q", "r", "s", "t", "u", "v", "w", "x", "y", "z",
     "A", "B", "C", "D", "E", "F", "G", "H", "I", "J", "K", "L", "M",
     "N", "O", "P", "Q", "R", "S", "T", "U", "V", "W", "X", "Y", "Z"}

isspace(c) == c \in {" ", "\t", "\n", "\r", "\f"}

isdigit(c) == c \in Digits

isalpha(c) == c \in Letters

isalnum(c) == isalpha(c) \/ isdigit(c)

(***************************************************************************)
(* Doubles.                                                                *)
(***************************************************************************)
Abs(n) == IF n < 0 THEN -n ELSE n

RECURSIVE GCD(_, _)
GCD(a, b) == IF b = 0 THEN a ELSE GCD(b, a % b)

RECURSIVE IsPow2(_)
IsPow2(d) == IF d = 1 THEN TRUE ELSE IF d % 2 # 0 THEN FALSE ELSE IsPow2(d \div 2)

Q(n, d) == <<"q", n, d>>

Sym(sg, op, l, r) == <<"sym", sg, op, l, r>>

Zero == Q(0, 1)

One == Q(1, 1)

IsQ(v) == v[1] = "q"

IsZero(v) == IsQ(v) /\ v[2] = 0

IsInt(v) == IsQ(v) /\ v[3] = 1

\* "pos", "neg", "zero" or "unk"
SignOf(v) ==
    IF IsQ(v) THEN (IF v[2] > 0 THEN "pos" ELSE IF v[2] < 0 THEN "neg" ELSE "zero")
    ELSE v[2]

FlipSign(s) == IF s = "pos" THEN "neg" ELSE IF s = "neg" THEN "pos" ELSE s

SignOfInt(n) == IF n > 0 THEN "pos" ELSE IF n < 0 THEN "neg" ELSE "zero"

\* the double n/d (d > 0): exact when it is a small dyadic rational, else opaque
Norm(n, d, op, l, r) ==
    LET g == GCD(Abs(n), d)
        nn == n \div g
        dd == d \div g
    IN  IF n = 0 THEN Zero
        ELSE IF Abs(nn) <= MaxMag /\ dd <= MaxMag /\ IsPow2(dd) THEN Q(nn, dd)
        ELSE Sym(SignOfInt(n), op, l, r)

\* sign of a sum of two values of these signs
AddSign(s, t) ==
    IF s = "zero" THEN t
    ELSE IF t = "zero" THEN s
    ELSE IF s = t THEN s
    ELSE "unk"

\* a + b  (standard_calculator.hpp: add)
add(a, b) ==
    IF IsQ(a) /\ IsQ(b) THEN Norm(a[2] * b[3] + b[2] * a[3], a[3] * b[3], "add", a, b)
    ELSE IF IsZero(a) /\ SignOf(b) # "unk" THEN b
    ELSE IF IsZero(b) /\ SignOf(a) # "unk" THEN a
    ELSE Sym(AddSign(SignOf(a), SignOf(b)), "add", a, b)

\* a - b  (standard_calculator.hpp: subtract)
subtract(a, b) ==
    IF IsQ(a) /\ IsQ(b) THEN Norm(a[2] * b[3] - b[2] * a[3], a[3] * b[3], "sub", a, b)
    ELSE IF IsZero(b) /\ SignOf(a) # "unk" THEN a
    ELSE Sym(AddSign(SignOf(a), FlipSign(SignOf(b))), "sub", a, b)

\* a * b  (standard_calculator.hpp: multiply); a product with an opaque factor
\* may underflow to zero or be NaN, so its sign is not known
multiply(a, b) ==
    IF IsQ(a) /\ IsQ(b) THEN Norm(a[2] * b[2], a[3] * b[3], "mul", a, b)
    ELSE Sym("unk", "mul", a, b)

\* -a  (the unary minus of parse_factor)
negate(a) ==
    IF IsQ(a) THEN Q(-a[2], a[3]) ELSE Sym(FlipSign(a[2]), "neg", a, <<>>)

\* a / b for b # 0
Quotient(a, b) ==
    IF IsQ(a) /\ IsQ(b)
    THEN LET n == a[2] * b[3]
             d == a[3] * b[2]
         IN  IF d < 0 THEN Norm(-n, -d, "div", a, b) ELSE Norm(n, d, "div", a, b)
    ELSE Sym("unk", "div", a, b)

\* fmod(a, b) for b # 0: a - b * trunc(a / b), exact in IEEE-754, sign of a
Fmod(a, b) ==
    IF IsQ(a) /\ IsQ(b)
    THEN LET A == Abs(a[2]) * b[3]
             B == Abs(b[2]) * a[3]
             r == A % B
         IN  Norm(IF a[2] < 0 THEN -r ELSE r, a[3] * b[3], "fmod", a, b)
    ELSE Sym("unk", "fmod", a, b)

(***************************************************************************)
(* Exceptions.  An operation that can throw returns [val, exc]; exc is     *)
(* <<type, what, arg>>, type "none" when nothing was thrown.               *)
(***************************************************************************)
NoExc == <<"none", "", <<>>>>

Ret(v) == [val |-> v, exc |-> NoExc]

Throw(type, what, arg) == [val |-> Zero, exc |-> <<type, what, arg>>]

\* the model cannot decide a comparison the code makes on an opaque value
Undecided(op, x) == Throw("unmodelled", op, x)

\* (mutant) no test of the divisor: IEEE-754 division by zero
divide_zero_passes(a, b) ==
    IF ~IsQ(b) /\ SignOf(b) = "unk" THEN Undecided("divide", b)
    ELSE Ret(IF IsZero(b) THEN Sym("unk", "div", a, b) ELSE Quotient(a, b))

\* StandardCalculator::divide
divide(a, b) ==
    IF ~IsQ(b) /\ SignOf(b) = "unk" THEN Undecided("divide", b)
    ELSE IF IsZero(b) THEN Throw("domain_error", "Division by zero", <<>>)
    ELSE Ret(Quotient(a, b))

\* StandardCalculator::modulo
modulo(a, b) ==
    IF ~IsQ(b) /\ SignOf(b) = "unk" THEN Undecided("modulo", b)
    ELSE IF IsZero(b) THEN Throw("domain_error", "Modulo by zero", <<>>)
    ELSE Ret(Fmod(a, b))

\* acc * a^k for an exact a other than 0, 1, -1: stops at the first product
\* that is no longer exact (within 14 steps, as 2^14 > MaxMag)
RECURSIVE PowAcc(_, _, _)
PowAcc(acc, a, k) ==
    IF k = 0 \/ ~IsQ(acc) THEN acc ELSE PowAcc(multiply(acc, a), a, k - 1)

\* sign of a^k for an exact a # 0 and an integer k
PowSign(a, k) == IF a[2] > 0 \/ k % 2 = 0 THEN "pos" ELSE "neg"

\* a^k for an exact a and an integer k >= 1
PowNat(a, k, b) ==
    IF IsZero(a) THEN Zero
    ELSE IF Abs(a[2]) = a[3] THEN (IF PowSign(a, k) = "pos" THEN One ELSE Q(-1, 1))
    ELSE LET p == PowAcc(One, a, k)
         IN  IF IsQ(p) THEN p
             \* |a| > 1 grows (to infinity at most); |a| < 1 may underflow to 0
             ELSE IF Abs(a[2]) > a[3] \/ k <= 64 THEN Sym(PowSign(a, k), "pow", a, b)
             ELSE Sym("unk", "pow", a, b)

\* StandardCalculator::power: std::pow(base, exponent), which never throws
power(a, b) ==
    IF IsZero(b) THEN One
    ELSE IF a = One THEN One
    ELSE IF IsQ(a) /\ IsInt(b) /\ b[2] > 0 THEN PowNat(a, b[2], b)
    ELSE IF IsQ(a) /\ IsInt(b)
    THEN \* a negative integer exponent
         IF IsZero(a) THEN Sym("unk", "pow", a, b)
         ELSE LET p == PowNat(a, -b[2], b)
              IN  IF IsQ(p) /\ IsQ(Quotient(One, p)) THEN Quotient(One, p)
                  ELSE IF Abs(a[2]) < a[3] \/ -b[2] <= 64
                       THEN Sym(PowSign(a, b[2]), "pow", a, b)
                  ELSE Sym("unk", "pow", a, b)
    ELSE IF IsQ(a) /\ IsQ(b)
    THEN \* a fractional exponent
         IF IsZero(a) THEN (IF b[2] > 0 THEN Zero ELSE Sym("pos", "pow", a, b))
         ELSE IF a[2] < 0 THEN Sym("unk", "pow", a, b)
         ELSE IF (b[2] > 0 /\ a[2] >= a[3]) \/ (b[2] < 0 /\ a[2] <= a[3])
                 \/ Abs(b[2]) <= 64 * b[3]
              THEN Sym("pos", "pow", a, b)
         ELSE Sym("unk", "pow", a, b)
    ELSE IF IsQ(a) /\ a[2] >= a[3] /\ SignOf(b) = "pos" THEN Sym("pos", "pow", a, b)
    ELSE Sym("unk", "pow", a, b)

(***************************************************************************)
(* The unary functions the constructor registers, by the name of the       *)
(* StandardCalculator member each lambda calls.                            *)
(***************************************************************************)
\* the integer square root of n >= 0, or -1 when n is no perfect square
ISqrt(n) ==
    IF \E r \in 0..100 : r * r = n THEN CHOOSE r \in 0..100 : r * r = n ELSE -1

\* a function that is odd around 0 and exactly 0 there (sin, tan, atan, ...)
OddFn(f, x) ==
    IF IsZero(x) THEN Zero ELSE Sym("unk", f, x, <<>>)

\* a function with f(0) = 0 that keeps the sign of its argument
SignFn(f, x) ==
    IF IsZero(x) THEN Zero ELSE Sym(SignOf(x), f, x, <<>>)

\* the logarithms: x <= 0 throws, log(1) = 0
LogFn(f, x) ==
    IF ~IsQ(x) /\ SignOf(x) = "unk" THEN Undecided(f, x)
    ELSE IF SignOf(x) \in {"zero", "neg"}
         THEN Throw("domain_error", "Logarithm of non-positive number", <<>>)
    ELSE IF x = One THEN Ret(Zero)
    ELSE IF IsQ(x) THEN Ret(Sym(IF x[2] > x[3] THEN "pos" ELSE "neg", f, x, <<>>))
    ELSE Ret(Sym("unk", f, x, <<>>))

\* asin, acos: x outside [-1, 1] throws
ArcFn(f, x) ==
    IF ~IsQ(x) THEN Undecided(f, x)
    ELSE IF Abs(x[2]) > x[3]
         THEN Throw("domain_error",
                    IF f = "asin" THEN "asin domain error: x must be in [-1, 1]"
                    ELSE "acos domain error: x must be in [-1, 1]", <<>>)
    ELSE IF f = "asin" THEN Ret(SignFn(f, x))
    ELSE IF x = One THEN Ret(Zero)
    ELSE Ret(Sym("pos", f, x, <<>>))

\* StandardCalculator::sqrt
SqrtFn(x) ==
    IF ~IsQ(x) /\ SignOf(x) = "unk" THEN Undecided("sqrt", x)
    ELSE IF SignOf(x) = "neg"
         THEN Throw("domain_error", "Square root of negative number", <<>>)
    ELSE IF IsQ(x) /\ ISqrt(x[2]) >= 0 /\ ISqrt(x[3]) >= 0
         THEN Ret(Q(ISqrt(x[2]), ISqrt(x[3])))
    ELSE Ret(Sym("pos", "sqrt", x, <<>>))

\* floor, ceil, round (half away from zero) of an exact value
RoundFn(f, x) ==
    IF ~IsQ(x) THEN Sym("unk", f, x, <<>>)
    ELSE IF f = "floor" THEN Q(x[2] \div x[3], 1)
    ELSE IF f = "ceil" THEN Q(-((-x[2]) \div x[3]), 1)
    ELSE LET m == (2 * Abs(x[2]) + x[3]) \div (2 * x[3])
         IN  Q(IF x[2] < 0 THEN -m ELSE m, 1)

\* the bodies a caller registers in this model: x |-> -x, x |-> x + x
UserBodies == {"user_negate", "user_twice"}

\* it->second(arg): the call of the std::function bound to a name
Call(f, x) ==
    IF f \in {"sin", "tan"} THEN Ret(OddFn(f, x))
    ELSE IF f \in {"atan", "sinh", "tanh", "cbrt"} THEN Ret(SignFn(f, x))
    ELSE IF f = "cos" THEN Ret(IF IsZero(x) THEN One ELSE Sym("unk", f, x, <<>>))
    ELSE IF f = "cosh" THEN Ret(IF IsZero(x) THEN One ELSE Sym("pos", f, x, <<>>))
    ELSE IF f \in {"asin", "acos"} THEN ArcFn(f, x)
    ELSE IF f = "sqrt" THEN SqrtFn(x)
    ELSE IF f = "abs"
         THEN Ret(IF SignOf(x) = "neg" THEN negate(x)
                  ELSE IF SignOf(x) = "unk" THEN Sym("unk", f, x, <<>>) ELSE x)
    ELSE IF f = "exp"
         THEN Ret(IF IsZero(x) THEN One
                  ELSE IF SignOf(x) = "pos" \/ (IsQ(x) /\ -x[2] <= 700 * x[3])
                       THEN Sym("pos", f, x, <<>>)
                  ELSE Sym("unk", f, x, <<>>))
    ELSE IF f \in {"log", "log10", "log2"} THEN LogFn(f, x)
    ELSE IF f \in {"floor", "ceil", "round"} THEN Ret(RoundFn(f, x))
    ELSE IF f = "user_negate" THEN Ret(negate(x))
    ELSE Ret(add(x, x))

(***************************************************************************)
(* std::stod on the text parse_number scans: a run of digits and at most   *)
(* one '.', then possibly 'e'/'E', a sign and digits.  strtod converts the *)
(* longest prefix that is a number (an exponent marker without digits is   *)
(* left out), std::stod throws invalid_argument when there is none and     *)
(* out_of_range when strtod reports ERANGE (overflow, or a subnormal       *)
(* inexact result).                                                        *)
(***************************************************************************)
RECURSIVE DigitsToInt(_)
DigitsToInt(ds) ==
    IF ds = <<>> THEN 0
    ELSE DigitsToInt(SubSeq(ds, 1, Len(ds) - 1)) * 10 + DigitVal(ds[Len(ds)])

RECURSIVE Pow10(_)
Pow10(k) == IF k = 0 THEN 1 ELSE 10 * Pow10(k - 1)

RECURSIVE NumDigits(_)
NumDigits(n) == IF n < 10 THEN 1 ELSE 1 + NumDigits(n \div 10)

OnlyDigits(t) == SelectSeq(t, LAMBDA c : isdigit(c))

\* the index of the first character of t satisfying Test, or Len(t) + 1
FirstIndex(t, Test(_)) ==
    IF \E i \in 1..Len(t) : Test(t[i])
    THEN CHOOSE i \in 1..Len(t) : Test(t[i]) /\ \A j \in 1..(i - 1) : ~Test(t[j])
    ELSE Len(t) + 1

\* the decimal m * 10^e10 (m >= 1) as a double
Decimal(m, e10, text) ==
    LET S == NumDigits(m) - 1 + e10
        D == NumDigits(m)
        lead4 == IF D <= 4 THEN m * Pow10(4 - D) ELSE m \div Pow10(D - 4)
        erange == \/ S > 308
                  \/ S < -308
                  \/ S = 308 /\ lead4 >= 1798
                  \/ S = -308 /\ lead4 <= 2225
    IN  IF D > 4 /\ ((S = 308 /\ lead4 = 1797) \/ (S = -308 /\ lead4 = 2225))
        THEN Undecided("stod", text)
        ELSE IF erange THEN Throw("out_of_range", "stod", text)
        ELSE IF e10 >= 0
             THEN (IF e10 <= 4 /\ m <= MaxMag
                   THEN Ret(Norm(m * Pow10(e10), 1, "lit", text, <<>>))
                   ELSE Ret(Sym("pos", "lit", text, <<>>)))
        ELSE IF -e10 <= 9 THEN Ret(Norm(m, Pow10(-e10), "lit", text, <<>>))
        ELSE Ret(Sym("pos", "lit", text, <<>>))

stod(num_str) ==
    LET ePos == FirstIndex(num_str, LAMBDA c : c \in {"e", "E"})
        mant == SubSeq(num_str, 1, ePos - 1)
        dotPos == FirstIndex(mant, LAMBDA c : c = ".")
        mdigits == OnlyDigits(mant)
        fracLen == IF dotPos > Len(mant) THEN 0 ELSE Len(mant) - dotPos
        rest == SubSeq(num_str, ePos + 1, Len(num_str))
        eneg == rest # <<>> /\ rest[1] = "-"
        edigits == OnlyDigits(rest)
        \* an exponent beyond four digits is out of every double's range
        E == IF Len(edigits) > 4 /\ DigitsToInt(SubSeq(edigits, 1, Len(edigits) - 4)) > 0
             THEN 10000
             ELSE DigitsToInt(SubSeq(edigits, IF Len(edigits) > 4 THEN Len(edigits) - 3 ELSE 1,
                                     Len(edigits)))
        m == DigitsToInt(mdigits)
    IN  IF mdigits = <<>> THEN Throw("invalid_argument", "stod", num_str)
        ELSE IF \A i \in 1..Len(mdigits) : mdigits[i] = "0" THEN Ret(Zero)
        ELSE IF Len(mdigits) > 9 THEN Undecided("stod", num_str)
        ELSE Decimal(m, (IF eneg THEN -E ELSE E) - fracLen, num_str)

(***************************************************************************)
(* ExpressionParser.  A parser object is [input_, pos_, functions_,        *)
(* constants_]; pos_ is zero-based, so input_[pos_] of the code is         *)
(* input_[pos_ + 1] here.  During one evaluate the object carries a fifth  *)
(* field, hist: the history of what the call has done so far (operands     *)
(* met, ')' checks, lookups, functions applied), which the code does not   *)
(* have and never reads.  Its events:                                      *)
(*   <<"number", pos>>              parse_number starts scanning at pos    *)
(*   <<"operand", op, v>>           the right operand of op evaluated to v *)
(*   <<"closing", ctx, c>>          after the inner expression of a group  *)
(*                                  or call, the next character is c       *)
(*   <<"lookup", space, name, b>>   name was looked up in functions_ or    *)
(*                                  constants_, and found iff b            *)
(*   <<"apply", f, v>>              the function f is called on v          *)
(* A production returns [p, val, exc]: the object   *)
(* as the call left it, the value returned, or the exception thrown.       *)
(* Two more fields the code does not have: depth, the number of            *)
(* production calls in progress, and trace, every step of the call in      *)
(* order: the events of hist and                                           *)
(*   <<"pos", n>>                   pos_ holds n: after input_ is          *)
(*                                  assigned, after the reset to 0 and     *)
(*                                  after each ++pos_                      *)
(*   <<"read", n>>                  input_[pos_] is read with pos_ = n     *)
(*   <<"enter", production, n>>     a production is called with pos_ = n   *)
(*   <<"exit", production, n>>      ... and returns with pos_ = n          *)
(*   <<"caret", n>>                 the '^' at n is taken as the power     *)
(*                                  operator                               *)
(*   <<"throw", type>>              an exception is thrown                 *)
(***************************************************************************)
At(p) == p.input_[p.pos_ + 1]

AtEnd(p) == p.pos_ >= Len(p.input_)

Step(p, event) == [p EXCEPT !.trace = Append(@, event)]

\* ++pos_
Advance(p) == Step([p EXCEPT !.pos_ = @ + 1], <<"pos", p.pos_ + 1>>)

\* input_[pos_] is read
Read(p) == Step(p, <<"read", p.pos_>>)

\* (mutant) the right operand of && is evaluated whatever the left one is
Glance_unguarded(p) == Read(p)

\* the read in "pos_ < input_.length() && ... input_[pos_] ...": && and ||
\* evaluate their right operand only when the left one does not decide
Glance(p) == IF p.pos_ < Len(p.input_) THEN Read(p) ELSE p

Value(p, v) == [p |-> p, val |-> v, exc |-> NoExc]

Raise(p, type, what, arg) ==
    [p |-> Step(p, <<"throw", type>>), val |-> Zero, exc |-> <<type, what, arg>>]

\* the value or exception of a primitive, at parser state p
Lift(p, r) ==
    [p |-> IF r.exc = NoExc THEN p ELSE Step(p, <<"throw", r.exc[1]>>),
     val |-> r.val, exc |-> r.exc]

Failed(r) == r.exc # NoExc

Log(p, event) == [p EXCEPT !.hist = Append(@, event), !.trace = Append(@, event)]

\* a production is called
Enter(p, production) ==
    [Step(p, <<"enter", production, p.pos_>>) EXCEPT !.depth = @ + 1]

\* a production returns r, or an exception passes through it
Exit(r, production) ==
    IF Failed(r) THEN r
    ELSE [r EXCEPT !.p = [Step(r.p, <<"exit", production, r.p.pos_>>)
                             EXCEPT !.depth = @ - 1]]

\* the model follows no call nested deeper than MaxDepth
TooDeep(p) == p.depth >= MaxDepth

Abandon(p) == Raise(p, "unmodelled", "depth", <<>>)

RECURSIVE skip_whitespace(_)
skip_whitespace(p0) ==
    LET p == Glance(p0)
    IN  IF ~AtEnd(p) /\ isspace(At(p)) THEN skip_whitespace(Advance(p)) ELSE p

\* (mutant) a second '.' ends the literal instead of raising an error
RECURSIVE ScanMantissa_split(_, _)
ScanMantissa_split(p0, has_dot) ==
    LET p == Glance(p0)
    IN
    IF ~AtEnd(p) /\ (isdigit(At(p)) \/ At(p) = ".") /\ ~(At(p) = "." /\ has_dot)
    THEN ScanMantissa_split(Advance(p), has_dot \/ At(p) = ".")
    ELSE [p |-> p, bad |-> FALSE]

\* parse_number, the scan of digits and dots: [p, bad], bad at a second '.'
RECURSIVE ScanMantissa(_, _)
ScanMantissa(p0, has_dot) ==
    LET p == Glance(p0)
    IN
    IF ~AtEnd(p) /\ (isdigit(At(p)) \/ At(p) = ".")
    THEN IF At(p) = "." /\ has_dot THEN [p |-> p, bad |-> TRUE]
         ELSE ScanMantissa(Advance(p), has_dot \/ At(p) = ".")
    ELSE [p |-> p, bad |-> FALSE]

RECURSIVE SkipDigits(_)
SkipDigits(p0) ==
    LET p == Glance(p0)
    IN  IF ~AtEnd(p) /\ isdigit(At(p)) THEN SkipDigits(Advance(p)) ELSE p

\* parse_number, "Handle scientific notation"
ScanExponent(p0) ==
    LET p == Glance(p0)
    IN
    IF ~AtEnd(p) /\ At(p) \in {"e", "E"}
    THEN LET p1 == Glance(Advance(p))
             p2 == IF ~AtEnd(p1) /\ At(p1) \in {"+", "-"} THEN Advance(p1) ELSE p1
         IN  SkipDigits(p2)
    ELSE p

\* parse_number, the conversion: the catch of stod's exceptions
number_convert(pe, num_str, d) ==
    IF d.exc[1] = "unmodelled" THEN Lift(pe, d)
    ELSE IF Failed(d) THEN Raise(pe, "runtime_error", "Invalid number: ", num_str)
    ELSE Value(pe, d.val)

\* (mutant) a number of no characters is zero
number_text_empty_zero(start, pe) ==
    IF start = pe.pos_ THEN Value(pe, Zero)
    ELSE number_convert(pe, SubSeq(pe.input_, start + 1, pe.pos_),
                        stod(SubSeq(pe.input_, start + 1, pe.pos_)))

\* parse_number, after the scan: the text scanned is input_[start, pe.pos_)
number_text(start, pe) ==
    IF start = pe.pos_ THEN Raise(pe, "runtime_error", "Expected number", <<>>)
    ELSE number_convert(pe, SubSeq(pe.input_, start + 1, pe.pos_),
                        stod(SubSeq(pe.input_, start + 1, pe.pos_)))

\* parse_number, after the scan of digits and dots
number_mantissa(start, m) ==
    IF m.bad THEN Raise(m.p, "runtime_error", "Invalid number format", <<>>)
    ELSE number_text(start, ScanExponent(m.p))

\* parse_number, after skip_whitespace
number_start(p) ==
    IF AtEnd(p) THEN Raise(p, "runtime_error", "Expected number", <<>>)
    ELSE number_mantissa(p.pos_, ScanMantissa(p, FALSE))

number_enter(p) == Log(p, <<"number", p.pos_>>)

parse_number(p0) ==
    IF TooDeep(p0) THEN Abandon(p0)
    ELSE Exit(number_start(number_enter(skip_whitespace(Enter(p0, "number")))), "number")

\* the next character the code looks at, or "eof"
Peek(p) == IF AtEnd(p) THEN "eof" ELSE At(p)

\* parse_factor, the scan of an identifier: [p, name]
RECURSIVE ScanName(_, _)
ScanName(p0, name) ==
    LET p == Glance(p0)
    IN
    IF ~AtEnd(p) /\ (isalnum(At(p)) \/ At(p) = "_")
    THEN ScanName(Advance(p), Append(name, At(p)))
    ELSE [p |-> p, name |-> name]

\* (mutant) the end of the input is not tested
MissingClose_unchecked_end(p) == ~AtEnd(p) /\ At(p) # ")"

\* parse_factor, the test before "Mismatched parentheses" is thrown
MissingClose(p) == AtEnd(p) \/ At(p) # ")"

RECURSIVE parse_expression(_)
RECURSIVE expression_loop(_, _)
RECURSIVE parse_term(_)
RECURSIVE term_loop(_, _)
RECURSIVE parse_factor(_)
RECURSIVE power_suffix(_, _)
RECURSIVE parse_call(_, _)

\* (mutant) the right operand is a whole expression: a - b - c = a - (b - c)
expression_loop_right(p0, result) ==
    IF AtEnd(p0) THEN Value(p0, result)
    ELSE LET p == skip_whitespace(p0)
         IN  IF AtEnd(p) THEN Value(p, result)
             ELSE IF At(p) \in {"+", "-"}
             THEN LET right == parse_expression(Advance(p))
                  IN  IF Failed(right) THEN right
                      ELSE Value(right.p, IF At(p) = "+" THEN add(result, right.val)
                                          ELSE subtract(result, right.val))
             ELSE Value(p, result)

\* parse_expression, the loop body once the right operand is parsed
expression_fold(p, result, right) ==
    IF Failed(right) THEN right
    ELSE expression_loop(Log(right.p, <<"operand", At(p), right.val>>),
                         IF At(p) = "+" THEN add(result, right.val)
                         ELSE subtract(result, right.val))

\* parse_expression, the loop body after skip_whitespace
expression_at(p0, result) ==
    IF AtEnd(p0) THEN Value(p0, result)
    ELSE LET p == Read(p0)
         IN  IF At(p) \in {"+", "-"}
             THEN expression_fold(p, result, parse_term(Advance(p)))
             ELSE Value(p, result)

\* parse_expression, the while loop: result is the value folded so far
expression_loop(p0, result) ==
    IF AtEnd(p0) THEN Value(p0, result) ELSE expression_at(skip_whitespace(p0), result)

\* parse_expression, after the first term
expression_first(left) ==
    IF Failed(left) THEN left ELSE expression_loop(left.p, left.val)

parse_expression(p) ==
    IF TooDeep(p) THEN Abandon(p)
    ELSE Exit(expression_first(parse_term(Enter(p, "expression"))), "expression")

\* parse_term, the loop body once the primitive has been applied at q
term_next(q, r) ==
    IF Failed(r) THEN Lift(q, r) ELSE term_loop(q, r.val)

\* parse_term, the loop body once the right operand is parsed
term_fold(p, result, right) ==
    IF Failed(right) THEN right
    ELSE term_next(Log(right.p, <<"operand", At(p), right.val>>),
                   IF At(p) = "*" THEN Ret(multiply(result, right.val))
                   ELSE IF At(p) = "/" THEN divide(result, right.val)
                   ELSE modulo(result, right.val))

\* parse_term, the loop body after skip_whitespace
term_at(p0, result) ==
    IF AtEnd(p0) THEN Value(p0, result)
    ELSE LET p == Read(p0)
         IN  IF At(p) \in {"*", "/", "%"}
             THEN term_fold(p, result, parse_factor(Advance(p)))
             ELSE Value(p, result)

\* parse_term, the while loop
term_loop(p0, result) ==
    IF AtEnd(p0) THEN Value(p0, result) ELSE term_at(skip_whitespace(p0), result)

\* parse_term, after the first factor
term_first(left) ==
    IF Failed(left) THEN left ELSE term_loop(left.p, left.val)

parse_term(p) ==
    IF TooDeep(p) THEN Abandon(p)
    ELSE Exit(term_first(parse_factor(Enter(p, "term"))), "term")

\* (mutant) the exponent is one number and the chain folds to the left
power_suffix_left(p0, result) ==
    LET p == skip_whitespace(p0)
    IN  IF ~AtEnd(p) /\ At(p) = "^"
        THEN LET exponent == parse_number(Advance(p))
             IN  IF Failed(exponent) THEN exponent
                 ELSE power_suffix(exponent.p, power(result, exponent.val))
        ELSE Value(p, result)

\* "Check for power operator", once the exponent is parsed
power_apply(result, exponent) ==
    IF Failed(exponent) THEN exponent
    ELSE Value(exponent.p, power(result, exponent.val))

\* "Check for power operator", after skip_whitespace
power_at(p0, result) ==
    LET p == Glance(p0)
    IN  IF ~AtEnd(p) /\ At(p) = "^"
        THEN power_apply(result, parse_factor(Advance(Step(p, <<"caret", p.pos_>>))))
        ELSE Value(p, result)

\* parse_factor, "Check for power operator" (after ')' and after a number)
power_suffix(p0, result) == power_at(skip_whitespace(p0), result)

\* (mutant) a name that is no function falls back to the constant of that name
parse_call_fallback(p, name) ==
    LET arg == parse_expression(Advance(p))
        q == skip_whitespace(arg.p)
        q2 == Advance(q)
    IN  IF Failed(arg) THEN arg
        ELSE IF MissingClose(q)
             THEN Raise(q, "runtime_error", "Mismatched parentheses in function call", <<>>)
        ELSE IF name \in DOMAIN q2.functions_
             THEN Lift(q2, Call(q2.functions_[name], arg.val))
        ELSE IF name \in DOMAIN q2.constants_ THEN Value(q2, q2.constants_[name])
        ELSE Raise(q2, "runtime_error", "Unknown function: ", name)

\* the function call, after ')' is consumed: the lookup in functions_ and the call
call_lookup(q2, name, v) ==
    IF name \notin DOMAIN q2.functions_
    THEN Raise(q2, "runtime_error", "Unknown function: ", name)
    ELSE Lift(Log(q2, <<"apply", q2.functions_[name], v>>), Call(q2.functions_[name], v))

call_lookup_enter(q1, name) ==
    Log(Advance(q1), <<"lookup", "function", name, name \in DOMAIN q1.functions_>>)

\* (mutant) the function is looked up before the ')' is checked
call_close_lookup_first(q1, name, v) ==
    IF name \notin DOMAIN q1.functions_
    THEN Raise(q1, "runtime_error", "Unknown function: ", name)
    ELSE IF MissingClose(q1)
    THEN Raise(q1, "runtime_error", "Mismatched parentheses in function call", <<>>)
    ELSE call_lookup(call_lookup_enter(q1, name), name, v)

\* the function call, the ')' check: q1 is after skip_whitespace, v the argument
call_close(q1, name, v) ==
    IF MissingClose(q1)
    THEN Raise(q1, "runtime_error", "Mismatched parentheses in function call", <<>>)
    ELSE call_lookup(call_lookup_enter(q1, name), name, v)

call_close_enter(q) == Log(Glance(q), <<"closing", "call", Peek(q)>>)

\* the function call, once the argument is parsed
call_arg(arg, name) ==
    IF Failed(arg) THEN arg
    ELSE call_close(call_close_enter(skip_whitespace(arg.p)), name, arg.val)

\* parse_factor, "Check if it's a function": p is at the '(' after name
parse_call(p, name) == call_arg(parse_expression(Advance(p)), name)

\* (mutant) the power check is made after a signed operand as well
unary_apply_power(p, value) ==
    IF Failed(value) THEN value
    ELSE power_suffix(value.p, IF At(p) = "-" THEN negate(value.val) ELSE value.val)

\* parse_factor, unary minus or plus, once the operand is parsed
unary_apply(p, value) ==
    IF Failed(value) THEN value
    ELSE Value(value.p, IF At(p) = "-" THEN negate(value.val) ELSE value.val)

\* parse_factor, parentheses, the ')' check: q1 is after skip_whitespace
group_close(q1, v) ==
    IF MissingClose(q1) THEN Raise(q1, "runtime_error", "Mismatched parentheses", <<>>)
    ELSE power_suffix(Advance(q1), v)

group_close_enter(q) == Log(Glance(q), <<"closing", "group", Peek(q)>>)

\* parse_factor, parentheses, once the inner expression is parsed
group_inner(result) ==
    IF Failed(result) THEN result
    ELSE group_close(group_close_enter(skip_whitespace(result.p)), result.val)

\* (mutant) a bare name that is no constant is looked up in functions_
constant_lookup_either(q, q1, name) ==
    IF name \in DOMAIN q.constants_ THEN Value(q1, q.constants_[name])
    ELSE IF name \in DOMAIN q.functions_ THEN Lift(q1, Call(q.functions_[name], Zero))
    ELSE Raise(q1, "runtime_error", "Unknown identifier: ", name)

\* parse_factor, the lookup in constants_: q is after the name
constant_lookup(q, q1, name) ==
    IF name \in DOMAIN q.constants_ THEN Value(q1, q.constants_[name])
    ELSE Raise(q1, "runtime_error", "Unknown identifier: ", name)

constant_lookup_enter(q, name) ==
    Log(q, <<"lookup", "constant", name, name \in DOMAIN q.constants_>>)

\* parse_factor, functions and constants, after skip_whitespace behind the name
identifier_at(q0, name) ==
    LET q == Glance(q0)
    IN  IF ~AtEnd(q) /\ At(q) = "(" THEN parse_call(q, name)
        ELSE constant_lookup(q, constant_lookup_enter(q, name), name)

\* parse_factor, functions and constants, once the name is scanned
identifier(id) == identifier_at(skip_whitespace(id.p), id.name)

\* parse_factor, a number, once it is parsed
number_suffix(number) ==
    IF Failed(number) THEN number ELSE power_suffix(number.p, number.val)

\* (mutant) the sign is not consumed before the operand is parsed
factor_at_sign_kept(p0) ==
    IF AtEnd(p0) THEN Raise(p0, "runtime_error", "Unexpected end of expression", <<>>)
    ELSE LET p == Read(p0)
         IN  IF At(p) \in {"-", "+"} THEN unary_apply(p, parse_factor(p))
             ELSE IF At(p) = "(" THEN group_inner(parse_expression(Advance(p)))
             ELSE IF isalpha(At(p)) THEN identifier(ScanName(p, <<>>))
             ELSE number_suffix(parse_number(p))

\* parse_factor, after skip_whitespace
factor_at(p0) ==
    IF AtEnd(p0) THEN Raise(p0, "runtime_error", "Unexpected end of expression", <<>>)
    ELSE LET p == Read(p0)
         IN  IF At(p) \in {"-", "+"} THEN unary_apply(p, parse_factor(Advance(p)))
             ELSE IF At(p) = "(" THEN group_inner(parse_expression(Advance(p)))
             ELSE IF isalpha(At(p)) THEN identifier(ScanName(p, <<>>))
             ELSE number_suffix(parse_number(p))

parse_factor(p0) ==
    IF TooDeep(p0) THEN Abandon(p0)
    ELSE Exit(factor_at(skip_whitespace(Enter(p0, "factor"))), "factor")

WithHist(self) ==
    [input_ |-> self.input_, pos_ |-> self.pos_, functions_ |-> self.functions_,
     constants_ |-> self.constants_, hist |-> <<>>, trace |-> <<>>, depth |-> 0]

WithoutHist(p) ==
    [input_ |-> p.input_, pos_ |-> p.pos_, functions_ |-> p.functions_,
     constants_ |-> p.constants_]

\* (mutant) the cursor is not reset
evaluate_keeps_pos(self, text) ==
    parse_expression(WithHist([self EXCEPT !.input_ = text]))

\* evaluate, "input_ = expression": pos_ is what it was
assign_input(p, text) == Step([p EXCEPT !.input_ = text], <<"pos", p.pos_>>)

\* evaluate, "pos_ = 0"
reset_pos(p) == Step([p EXCEPT !.pos_ = 0], <<"pos", 0>>)

\* ExpressionParser::evaluate
evaluate(self, text) ==
    parse_expression(reset_pos(assign_input(WithHist(self), text)))

(***************************************************************************)
(* The registry.  A std::map is a function on the set of its keys; a       *)
(* std::function is named by the StandardCalculator member it calls.       *)
(***************************************************************************)
EmptyMap == [k \in {} |-> 0]

\* (mutant) std::map::insert: an existing key keeps its value
Put_if_absent(m, k, v) == [x \in DOMAIN m \cup {k} |-> IF x \in DOMAIN m THEN m[x] ELSE v]

\* m[k] = v of std::map: inserts or overwrites
Put(m, k, v) == [x \in DOMAIN m \cup {k} |-> IF x = k THEN v ELSE m[x]]

register_function(self, name, func) ==
    [self EXCEPT !.functions_ = Put(@, name, func)]

register_constant(self, name, value) ==
    [self EXCEPT !.constants_ = Put(@, name, value)]

PI == Sym("pos", "PI", <<>>, <<>>)

E == Sym("pos", "E", <<>>, <<>>)

GOLDEN_RATIO == Sym("pos", "GOLDEN_RATIO", <<>>, <<>>)

\* the registrations of the constructor, in order
Builtins ==
    <<<<"function", <<"s", "i", "n">>, "sin">>,
       <<"function", <<"c", "o", "s">>, "cos">>,
       <<"function", <<"t", "a", "n">>, "tan">>,
       <<"function", <<"a", "s", "i", "n">>, "asin">>,
       <<"function", <<"a", "c", "o", "s">>, "acos">>,
       <<"function", <<"a", "t", "a", "n">>, "atan">>,
       <<"function", <<"s", "i", "n", "h">>, "sinh">>,
       <<"function", <<"c", "o", "s", "h">>, "cosh">>,
       <<"function", <<"t", "a", "n", "h">>, "tanh">>,
       <<"function", <<"s", "q", "r", "t">>, "sqrt">>,
       <<"function", <<"c", "b", "r", "t">>, "cbrt">>,
       <<"function", <<"a", "b", "s">>, "abs">>,
       <<"function", <<"e", "x", "p">>, "exp">>,
       <<"function", <<"l", "n">>, "log">>,
       <<"function", <<"l", "o", "g">>, "log10">>,
       <<"function", <<"l", "o", "g", "2">>, "log2">>,
       <<"function", <<"f", "l", "o", "o", "r">>, "floor">>,
       <<"function", <<"c", "e", "i", "l">>, "ceil">>,
       <<"function", <<"r", "o", "u", "n", "d">>, "round">>,
       <<"constant", <<"p", "i">>, PI>>,
       <<"constant", <<"e">>, E>>,
       <<"constant", <<"p", "h", "i">>, GOLDEN_RATIO>>>>

RECURSIVE RegisterAll(_, _)
RegisterAll(self, regs) ==
    IF regs = <<>> THEN self
    ELSE LET r == Head(regs)
         IN  RegisterAll(IF r[1] = "function" THEN register_function(self, r[2], r[3])
                         ELSE register_constant(self, r[2], r[3]), Tail(regs))

\* ExpressionParser::ExpressionParser; input_ is empty and pos_, which the
\* constructor does not initialize, holds whatever value garbage is
Constructed(garbage) ==
    RegisterAll([input_ |-> <<>>, pos_ |-> garbage, functions_ |-> EmptyMap,
                 constants_ |-> EmptyMap], Builtins)

(***************************************************************************)
(* The state machine: one parser object and the calls made on it.          *)
(*   parser      the object [input_, pos_, functions_, constants_]         *)
(*   expression  the argument of the last (or, before it, the coming)      *)
(*               evaluate call                                             *)
(*   outcome     how the last evaluate call ended, and its hist and trace  *)
(*   registered  history: every registration made, in order                *)
(*   calls       the number of calls made on the object                    *)
(***************************************************************************)
NoOutcome ==
    [status |-> "none", val |-> Zero, exc |-> NoExc, hist |-> <<>>, trace |-> <<>>]

\* values an uninitialized pos_ is given in this model
Garbage == {0, MaxLen + 1}

\* the REPL's try block once evaluate has returned or thrown r
Settle(text, r) ==
    /\ parser' = WithoutHist(r.p)
    /\ expression' = text
    /\ outcome' = [status |-> IF Failed(r) THEN "threw" ELSE "returned",
                   val |-> r.val, exc |-> r.exc, hist |-> r.p.hist,
                   trace |-> r.p.trace]
    /\ calls' = calls + 1
    /\ UNCHANGED registered

DoEvaluate(text) == Settle(text, evaluate(parser, text))

\* the texts of a second evaluate
AgainTexts == {<<>>, <<"2">>, <<"(", "2">>}

InitWith(texts) ==
    /\ \E g \in Garbage : parser = Constructed(g)
    /\ expression \in texts
    /\ outcome = NoOutcome
    /\ registered = Builtins
    /\ calls = 0

\* evaluate(expression) as the first call on a newly constructed parser
EvaluateGiven ==
    /\ calls = 0
    /\ DoEvaluate(expression)

\* a second evaluate on the same parser
EvaluateAgain ==
    /\ calls = 1
    /\ \E text \in AgainTexts : DoEvaluate(text)

(***************************************************************************)
(* Input sets.                                                             *)
(***************************************************************************)
\* every text of at most n characters of A
Strings(A, n) == UNION {[1..k -> A] : k \in 0..n}

RECURSIVE Flatten(_)
Flatten(ts) == IF ts = <<>> THEN <<>> ELSE Head(ts) \o Flatten(Tail(ts))

\* every concatenation of at most n tokens of V
TokenTexts(V, n) == {Flatten(ts) : ts \in Strings(V, n)}

\* longest text of the arithmetic input set
ArithLen == 5
\* longest text of the power-chain input set
PowLen == 6
\* most tokens of a text of the token input set
MaxTokens == 4

ShortAlphabet ==
    {"0", "2", "3", ".", "e", "x", "+", "-", "*", "/", "%", "^", "(", ")", " "}

ArithAlphabet == {"0", "2", "3", "+", "-", "*", "/", "%", " "}

PowAlphabet == {"0", "2", "3", ".", "^", " "}

\* most tokens of a text of the signed-power input set
SignedTokens == 6

SignedVocabulary ==
    {<<"a", "b", "s">>, <<"e">>, <<"(">>, <<")">>, <<"2">>, <<"-">>, <<"^">>}

\* most tokens of a text of the function-call input set
CallTokens == 6

CallVocabulary ==
    {<<"f", "o", "o">>, <<"a", "b", "s">>, <<"(">>, <<")">>, <<"2">>, <<"0">>, <<"/">>}

Vocabulary ==
    {<<"s", "i", "n">>, <<"l", "n">>, <<"f", "o", "o">>, <<"p", "i">>, <<"e">>,
     <<"(">>, <<")">>, <<"2">>, <<"0">>, <<"/">>, <<"^">>, <<" ">>}

\* the examples of print_help (main.cpp) and of the documentation, and texts
\* that use the names the session registers
SessionTexts ==
    {<<"2", " ", "+", " ", "2", " ", "*", " ", "3">>,
     <<"s", "i", "n", "(", "p", "i", "/", "2", ")">>,
     <<"s", "q", "r", "t", "(", "1", "4", "4", ")">>,
     <<"l", "n", "(", "e", "^", "2", ")">>,
     <<"(", "2", " ", "+", " ", "3", ")", " ", "*", " ", "4">>,
     <<"1", "0", " ", "/", " ", "0">>,
     <<"f", "o", "o", "(", "1", ")">>,
     <<"b", "a", "r">>,
     <<"(", "2", " ", "+", " ", "3">>,
     <<"1", ".", "2", ".", "3">>,
     <<"2", "^", "3", "^", "2">>,
     <<"2", "+", "2", ")">>,
     <<"2", " ", "2">>,
     <<"p", "i", "^", "2">>,
     <<"s", "i", "n", "(", "0", ")">>,
     <<"s", "i", "n", "(", "2", ")">>,
     <<"f", "(", "2", ")">>,
     <<"e">>,
     <<"e", "(", "2", ")">>,
     <<"f">>,
     <<"s", "i", "n">>,
     <<"p", "i", "(", "2", ")">>,
     <<"-", "2", "^", "2">>,
     <<"(", "-", "2", ")", "^", "2">>,
     <<"2", "e">>,
     <<"f", "o", "o", "(", "1", "/", "0", ")">>,
     <<"f", "o", "o", "(", "1">>,
     <<>>,
     <<" ", "2">>,
     <<"2", " ">>}

\* the names and values the session registers
SessionFunctionNames == {<<"s", "i", "n">>, <<"f">>, <<"e">>}

SessionConstantNames == {<<"e">>, <<"f">>}

SessionValues == {Q(2, 1), Q(0, 1)}

(***************************************************************************)
(* Actions of a session: the public member functions, called in any order. *)
(***************************************************************************)
Evaluate ==
    /\ calls < MaxCalls
    /\ \E text \in SessionTexts : DoEvaluate(text)

RegisterFunction ==
    /\ calls < MaxCalls
    /\ \E name \in SessionFunctionNames, func \in UserBodies :
          /\ parser' = register_function(parser, name, func)
          /\ registered' = Append(registered, <<"function", name, func>>)
    /\ calls' = calls + 1
    /\ UNCHANGED <<expression, outcome>>

RegisterConstant ==
    /\ calls < MaxCalls
    /\ \E name \in SessionConstantNames, value \in SessionValues :
          /\ parser' = register_constant(parser, name, value)
          /\ registered' = Append(registered, <<"constant", name, value>>)
    /\ calls' = calls + 1
    /\ UNCHANGED <<expression, outcome>>

Init == InitWith({<<>>})

Next == Evaluate \/ RegisterFunction \/ RegisterConstant

\* a session of calls on one parser
Spec == Init /\ [][Next]_vars

\* one evaluate on a new parser, for every short text
SpecShort == InitWith(Strings(ShortAlphabet, MaxLen)) /\ [][EvaluateGiven]_vars

\* ... for every short text of digits, binary operators and blanks
SpecArith == InitWith(Strings(ArithAlphabet, ArithLen)) /\ [][EvaluateGiven]_vars

\* ... for every short text of digits, dots, '^' and blanks
SpecPower == InitWith(Strings(PowAlphabet, PowLen)) /\ [][EvaluateGiven]_vars

\* ... for every text of a few tokens
SpecTokens == InitWith(TokenTexts(Vocabulary, MaxTokens)) /\ [][EvaluateGiven]_vars

\* ... for every text of a few tokens of signs, powers, groups and names
SpecSigned == InitWith(TokenTexts(SignedVocabulary, SignedTokens)) /\ [][EvaluateGiven]_vars

\* ... for every text of a few tokens of calls, groups and divisions
SpecCalls == InitWith(TokenTexts(CallVocabulary, CallTokens)) /\ [][EvaluateGiven]_vars

\* one evaluate on a new parser, for every short text, and a second evaluate
SpecAgain ==
    InitWith(Strings(ShortAlphabet, MaxLen)) /\ [][EvaluateGiven \/ EvaluateAgain]_vars

(***************************************************************************)
(* Properties.                                                             *)
(***************************************************************************)
Evaluated == outcome.status # "none"

Returned == outcome.status = "returned"

Threw(type, what, arg) == outcome.status = "threw" /\ outcome.exc = <<type, what, arg>>

DefaultRegistry ==
    /\ parser.functions_ = Constructed(0).functions_
    /\ parser.constants_ = Constructed(0).constants_

\* C1: on a parser with the constructor's registry, evaluate("ln(e^2)")
\* returns a number and raises no error.
C1_LnOfEPowerReturns ==
    (Evaluated /\ DefaultRegistry /\ expression = <<"l", "n", "(", "e", "^", "2", ")">>)
        => Returned

\* C2: whenever evaluate returns a number, the cursor is at the end of the
\* input: no suffix is left unread.
C2_ConsumesAllInput == Returned => parser.pos_ = Len(expression)

(***************************************************************************)
(* The reference reading of an arithmetic text: blanks around tokens       *)
(* dropped, the text split at its last '+' or '-' (the operands of the     *)
(* lowest tier, left-associative), else at its last '*', '/' or '%', else  *)
(* read as a literal.                                                      *)
(***************************************************************************)
RECURSIVE Trim(_)
Trim(t) ==
    IF t = <<>> THEN t
    ELSE IF t[1] = " " THEN Trim(Tail(t))
    ELSE IF t[Len(t)] = " " THEN Trim(SubSeq(t, 1, Len(t) - 1))
    ELSE t

\* a run of digits with at most one '.', and at least one digit
IsLiteral(t) ==
    /\ t # <<>>
    /\ \A i \in 1..Len(t) : isdigit(t[i]) \/ t[i] = "."
    /\ \E i \in 1..Len(t) : isdigit(t[i])
    /\ Cardinality({i \in 1..Len(t) : t[i] = "."}) <= 1

\* the last index of t holding a character of ops, or 0
LastIndexOf(t, ops) ==
    IF \E i \in 1..Len(t) : t[i] \in ops
    THEN CHOOSE i \in 1..Len(t) : t[i] \in ops /\ \A j \in (i + 1)..Len(t) : t[j] \notin ops
    ELSE 0

\* [ok, val]: ok is FALSE for a text that is not well-formed or that divides
\* (or takes a remainder) by zero
RECURSIVE Reference(_)
Reference(text) ==
    LET t == Trim(text)
        a == LastIndexOf(t, {"+", "-"})
        m == LastIndexOf(t, {"*", "/", "%"})
        k == IF a > 0 THEN a ELSE m
        l == Reference(SubSeq(t, 1, k - 1))
        r == Reference(SubSeq(t, k + 1, Len(t)))
        bad == [ok |-> FALSE, val |-> Zero]
    IN  IF k = 0 THEN (IF IsLiteral(t) THEN [ok |-> TRUE, val |-> stod(t).val] ELSE bad)
        ELSE IF ~l.ok \/ ~r.ok THEN bad
        ELSE IF t[k] = "+" THEN [ok |-> TRUE, val |-> add(l.val, r.val)]
        ELSE IF t[k] = "-" THEN [ok |-> TRUE, val |-> subtract(l.val, r.val)]
        ELSE IF t[k] = "*" THEN [ok |-> TRUE, val |-> multiply(l.val, r.val)]
        ELSE IF IsZero(r.val) THEN bad
        ELSE IF t[k] = "/" THEN [ok |-> TRUE, val |-> Quotient(l.val, r.val)]
        ELSE [ok |-> TRUE, val |-> Fmod(l.val, r.val)]

\* C3: for a well-formed text of literals and + - * / % that divides by no
\* zero, evaluate returns the value of the reference reading: * / % bind
\* tighter than + -, and each tier folds left to right.
C3_ArithmeticReading ==
    (Evaluated /\ Reference(expression).ok)
        => (Returned /\ outcome.val = Reference(expression).val)

C3_Witness ==
    /\ expression = <<"3", "-", "2", "*", "3">>
    /\ Returned
    /\ outcome.val = Q(-3, 1)

\* the first index of t holding c, or 0
IndexOf(t, c) ==
    IF \E i \in 1..Len(t) : t[i] = c
    THEN CHOOSE i \in 1..Len(t) : t[i] = c /\ \A j \in 1..(i - 1) : t[j] # c
    ELSE 0

\* the reading a ^ (b ^ (c ...)) of a chain of literals: [ok, val]
RECURSIVE PowerChain(_)
PowerChain(text) ==
    LET k == IndexOf(text, "^")
        base == Trim(SubSeq(text, 1, k - 1))
        rest == PowerChain(SubSeq(text, k + 1, Len(text)))
    IN  IF k = 0
        THEN (IF IsLiteral(Trim(text)) THEN [ok |-> TRUE, val |-> stod(Trim(text)).val]
              ELSE [ok |-> FALSE, val |-> Zero])
        ELSE IF IsLiteral(base) /\ rest.ok
             THEN [ok |-> TRUE, val |-> power(stod(base).val, rest.val)]
        ELSE [ok |-> FALSE, val |-> Zero]

\* C4: a chain of literals joined by '^' is read from the right:
\* a^b^c = a^(b^c).
C4_PowerRightAssociative ==
    (Evaluated /\ PowerChain(expression).ok)
        => (Returned /\ outcome.val = PowerChain(expression).val)

\* 2^3^2 is 2^9 = 512, and not 8^2 = 64
C4_Witness ==
    /\ expression = <<"2", "^", "3", "^", "2">>
    /\ Returned
    /\ outcome.val = Q(512, 1)

\* C5: once the right operand of a '/' or '%' has evaluated to zero, the
\* call does nothing more and ends with the domain error of that operator.
C5_ZeroDivisorThrows ==
    \A i \in 1..Len(outcome.hist) :
        LET ev == outcome.hist[i]
        IN  (ev[1] = "operand" /\ ev[2] \in {"/", "%"} /\ IsZero(ev[3]))
                => /\ i = Len(outcome.hist)
                   /\ Threw("domain_error",
                            IF ev[2] = "/" THEN "Division by zero" ELSE "Modulo by zero",
                            <<>>)

C5_Witness ==
    /\ expression = <<"(", "2", "/", "0">>
    /\ Threw("domain_error", "Division by zero", <<>>)

\* the identifier a text starts with: its longest prefix of letters, digits
\* and '_' (empty unless the text starts with a letter)
LeadingName(t) ==
    IF t = <<>> \/ ~isalpha(t[1]) THEN <<>>
    ELSE SubSeq(t, 1, FirstIndex(t, LAMBDA c : ~(isalnum(c) \/ c = "_")) - 1)

RECURSIVE DropBlanks(_)
DropBlanks(t) == IF t # <<>> /\ isspace(t[1]) THEN DropBlanks(Tail(t)) ELSE t

\* what follows the leading identifier, blanks dropped
AfterName(t) == DropBlanks(SubSeq(t, Len(LeadingName(t)) + 1, Len(t)))

\* t is '(' digits ')' followed by anything
StartsWithArgument(t) ==
    /\ Len(t) >= 3
    /\ t[1] = "("
    /\ \E k \in 3..Len(t) : t[k] = ")" /\ \A j \in 2..(k - 1) : isdigit(t[j])

\* C6: a failed lookup of a called name ends the call with "Unknown
\* function: name", a failed lookup of a bare name with "Unknown identifier:
\* name", and nothing more is done; in particular for the identifier a text
\* starts with, by what follows it.
C6_LookupFailureTyped ==
    /\ \A i \in 1..Len(outcome.hist) :
          LET ev == outcome.hist[i]
          IN  (ev[1] = "lookup" /\ ~ev[4])
                  => /\ i = Len(outcome.hist)
                     /\ Threw("runtime_error",
                              IF ev[2] = "function" THEN "Unknown function: "
                              ELSE "Unknown identifier: ", ev[3])
    /\ LET t == DropBlanks(expression)
           name == LeadingName(t)
           rest == AfterName(t)
       IN  (Evaluated /\ name # <<>>)
              => /\ (StartsWithArgument(rest) /\ name \notin DOMAIN parser.functions_)
                        => Threw("runtime_error", "Unknown function: ", name)
                 /\ ((rest = <<>> \/ rest[1] # "(") /\ name \notin DOMAIN parser.constants_)
                        => Threw("runtime_error", "Unknown identifier: ", name)

\* pi is a constant and no function: pi(2) is an unknown function
C6_Witness ==
    /\ expression = <<"p", "i", "(", "2", ")">>
    /\ Threw("runtime_error", "Unknown function: ", <<"p", "i">>)

\* C7: when the inner expression of a group or of a call argument has been
\* parsed and the next character is not ')' (or the input has ended), the
\* call does nothing more and ends with "Mismatched parentheses", worded for
\* the context.
C7_MissingCloseThrows ==
    \A i \in 1..Len(outcome.hist) :
        LET ev == outcome.hist[i]
        IN  (ev[1] = "closing" /\ ev[3] # ")")
                => /\ i = Len(outcome.hist)
                   /\ Threw("runtime_error",
                            IF ev[2] = "call" THEN "Mismatched parentheses in function call"
                            ELSE "Mismatched parentheses", <<>>)

C7_Witness ==
    /\ expression = <<"(", "2", "+", "3">>
    /\ outcome.hist # <<>>
    /\ outcome.hist[Len(outcome.hist)] = <<"closing", "group", "eof">>
    /\ Threw("runtime_error", "Mismatched parentheses", <<>>)

\* the longest run of digits and dots of t that starts at offset start
DigitDotRun(t, start) ==
    LET from == SubSeq(t, start + 1, Len(t))
    IN  SubSeq(from, 1, FirstIndex(from, LAMBDA c : ~(isdigit(c) \/ c = ".")) - 1)

DotCount(t) == Cardinality({i \in 1..Len(t) : t[i] = "."})

\* C8: when parse_number starts on a run of digits and dots that holds a
\* second '.', the call does nothing more and ends with "Invalid number
\* format".
C8_SecondDotThrows ==
    \A i \in 1..Len(outcome.hist) :
        LET ev == outcome.hist[i]
        IN  (ev[1] = "number" /\ DotCount(DigitDotRun(expression, ev[2])) >= 2)
                => /\ i = Len(outcome.hist)
                   /\ Threw("runtime_error", "Invalid number format", <<>>)

C8_Witness ==
    /\ expression = <<"2", ".", "3", ".">>
    /\ Threw("runtime_error", "Invalid number format", <<>>)

\* a step of evaluate: a call that registers nothing
EvaluateStep == calls' = calls + 1 /\ registered' = registered

\* C9: whatever calls came before, evaluate ends as it does on a newly
\* constructed parser that holds the same registry.
C9_NoHiddenState ==
    [][EvaluateStep =>
          \A g \in Garbage :
              LET fresh == [input_ |-> <<>>, pos_ |-> g,
                            functions_ |-> parser.functions_,
                            constants_ |-> parser.constants_]
                  r == evaluate(fresh, expression')
              IN  /\ outcome'.val = r.val
                  /\ outcome'.exc = r.exc
                  /\ outcome'.hist = r.p.hist
                  /\ parser'.pos_ = r.p.pos_]_vars

\* the third of three evaluate calls on one parser
C9_Witness ==
    /\ calls = 3
    /\ registered = Builtins
    /\ expression = <<"2", " ", "+", " ", "2", " ", "*", " ", "3">>
    /\ Returned
    /\ outcome.val = Q(8, 1)

\* the indices of the registrations of name in a namespace
Registrations(space, name) ==
    {i \in 1..Len(registered) : registered[i][1] = space /\ registered[i][2] = name}

Latest(S) == CHOOSE i \in S : \A j \in S : j <= i

\* every map holds, for each name, what was registered last for it
LastWriteWins ==
    \A space \in {"function", "constant"} :
        LET map == IF space = "function" THEN parser.functions_ ELSE parser.constants_
            names == DOMAIN map \cup {registered[i][2] : i \in 1..Len(registered)}
        IN  \A name \in names :
                IF Registrations(space, name) = {} THEN name \notin DOMAIN map
                ELSE /\ name \in DOMAIN map
                     /\ map[name] = registered[Latest(Registrations(space, name))][3]

\* t is name '(' literal ')'
IsCallOfLiteral(t) ==
    /\ LeadingName(t) # <<>>
    /\ Len(t) >= Len(LeadingName(t)) + 3
    /\ t[Len(LeadingName(t)) + 1] = "("
    /\ t[Len(t)] = ")"
    /\ IsLiteral(SubSeq(t, Len(LeadingName(t)) + 2, Len(t) - 1))

\* an evaluate of name(literal) applies the function registered last for
\* name, an evaluate of a bare name returns the constant registered last
UsesLatestBinding ==
    LET t == expression'
        name == LeadingName(t)
        fs == Registrations("function", name)
        cs == Registrations("constant", name)
        arg == stod(SubSeq(t, Len(name) + 2, Len(t) - 1)).val
        applied == Call(registered[Latest(fs)][3], arg)
    IN  /\ (IsCallOfLiteral(t) /\ fs # {})
              => (outcome'.val = applied.val /\ outcome'.exc = applied.exc)
        /\ (name # <<>> /\ name = t /\ cs # {})
              => (outcome'.exc = NoExc /\ outcome'.val = registered[Latest(cs)][3])

\* C10: registration is last-write-wins: after any registrations each name
\* is bound, in each namespace, to what was registered last for it there
\* (every other binding being as it was), and evaluate uses that binding.
C10_LastWriteWins ==
    /\ []LastWriteWins
    /\ [][EvaluateStep => UsesLatestBinding]_vars

\* sin was registered again, as x |-> -x, and sin(2) then returned -2
C10_Witness ==
    /\ registered[Len(registered)] = <<"function", <<"s", "i", "n">>, "user_negate">>
    /\ expression = <<"s", "i", "n", "(", "2", ")">>
    /\ Returned
    /\ outcome.val = Q(-2, 1)

(***************************************************************************)
(* The steps of one evaluate call, read from outcome.trace.                *)
(***************************************************************************)
\* the indices of the events of a kind
EventsOf(kind) == {i \in 1..Len(outcome.trace) : outcome.trace[i][1] = kind}

\* every read of input_[pos_] is made with pos_ < length
ReadsInBounds == \A i \in EventsOf("read") : outcome.trace[i][2] < Len(expression)

\* C11 (as stated): in every state of an evaluate call
\* 0 <= pos_ <= length of input_, and input_[pos_] is read only with
\* pos_ < length.  (The first call on a parser finds pos_ uninitialized; its
\* state before the reset is left out here.)
C11_PositionInBounds ==
    /\ \A i \in EventsOf("pos") :
          (i >= 2 \/ calls >= 2) => outcome.trace[i][2] \in 0..Len(expression)
    /\ ReadsInBounds

\* C11 (amended): evaluate assigns input_ before it resets pos_, and in the
\* state between the two pos_ is what the call before left (before the first
\* call, what the constructor left: nothing); from the reset on, in every
\* state 0 <= pos_ <= length of input_, and input_[pos_] is read only with
\* pos_ < length.
C11_PositionInBoundsFromReset ==
    /\ Evaluated => /\ Len(outcome.trace) >= 2
                    /\ outcome.trace[1][1] = "pos"
                    /\ outcome.trace[2] = <<"pos", 0>>
    /\ \A i \in EventsOf("pos") : i >= 2 => outcome.trace[i][2] \in 0..Len(expression)
    /\ Evaluated => parser.pos_ \in 0..Len(expression)
    /\ ReadsInBounds

\* the second evaluate, of "2", began with pos_ = 4 left by the first
C11_Witness ==
    /\ calls = 2
    /\ expression = <<"2">>
    /\ outcome.trace[1] = <<"pos", 4>>
    /\ \E i \in EventsOf("read") : outcome.trace[i][2] = 0
    /\ Returned

\* from event i on, with the productions in progress (innermost first): each
\* return is the return of the innermost one and is past its entry, and a
\* call that returns leaves none in progress
RECURSIVE ReturnsAdvance(_, _)
ReturnsAdvance(i, stack) ==
    IF i > Len(outcome.trace) THEN Returned => stack = <<>>
    ELSE LET ev == outcome.trace[i]
         IN  IF ev[1] = "enter" THEN ReturnsAdvance(i + 1, <<ev>> \o stack)
             ELSE IF ev[1] = "exit"
                  THEN /\ stack # <<>>
                       /\ stack[1][2] = ev[2]
                       /\ ev[3] > stack[1][3]
                       /\ ReturnsAdvance(i + 1, Tail(stack))
             ELSE ReturnsAdvance(i + 1, stack)

\* from the reset on pos_ never decreases
NeverDecreases ==
    \A i, j \in EventsOf("pos") :
        (2 <= i /\ i < j) => outcome.trace[i][2] <= outcome.trace[j][2]

\* C12: every call of parse_expression, parse_term, parse_factor or
\* parse_number either throws or returns with pos_ greater than at its
\* entry, and within one evaluate call (from the reset at its start on) pos_
\* never decreases.
C12_ProductionsAdvance ==
    /\ ReturnsAdvance(1, <<>>)
    /\ NeverDecreases

\* "2+3": parse_expression entered at 0 and returned at 3
C12_Witness ==
    /\ expression = <<"2", "+", "3">>
    /\ Returned
    /\ \E i \in EventsOf("enter") : outcome.trace[i] = <<"enter", "expression", 0>>
    /\ \E i \in EventsOf("exit") : outcome.trace[i] = <<"exit", "expression", 3>>
    /\ \E i \in EventsOf("exit") : outcome.trace[i] = <<"exit", "number", 3>>

\* the lookups an evaluate made, in order
RECURSIVE Lookups(_)
Lookups(h) ==
    IF h = <<>> THEN <<>>
    ELSE IF Head(h)[1] = "lookup" THEN <<Head(h)>> \o Lookups(Tail(h))
    ELSE Lookups(Tail(h))

\* an evaluate of name(literal) consults functions_ alone, and an evaluate of
\* a bare name constants_ alone, whatever the other table holds for the name
OneNamespace ==
    LET t == expression'
        name == LeadingName(t)
        arg == stod(SubSeq(t, Len(name) + 2, Len(t) - 1)).val
        applied == Call(parser.functions_[name], arg)
    IN  /\ IsCallOfLiteral(t) =>
              /\ Lookups(outcome'.hist) =
                     << <<"lookup", "function", name, name \in DOMAIN parser.functions_>> >>
              /\ IF name \in DOMAIN parser.functions_
                 THEN outcome'.val = applied.val /\ outcome'.exc = applied.exc
                 ELSE outcome'.exc = <<"runtime_error", "Unknown function: ", name>>
        /\ (name # <<>> /\ name = t) =>
              /\ Lookups(outcome'.hist) =
                     << <<"lookup", "constant", name, name \in DOMAIN parser.constants_>> >>
              /\ IF name \in DOMAIN parser.constants_
                 THEN outcome'.exc = NoExc /\ outcome'.val = parser.constants_[name]
                 ELSE outcome'.exc = <<"runtime_error", "Unknown identifier: ", name>>

\* C13: a reference to a name consults one namespace, chosen by syntax: the
\* name followed by '(' is looked up in functions_ only, a name not followed
\* by '(' in constants_ only, also when both tables hold the name; so a
\* constant called as a function is an unknown function, and a function
\* named bare an unknown identifier.
C13_OneNamespace == [][EvaluateStep => OneNamespace]_vars

\* e is the constant E and was registered as the function x |-> 2x as well:
\* e(2) is 4
C13_Witness ==
    /\ <<"e">> \in DOMAIN parser.constants_
    /\ registered[Len(registered)] = <<"function", <<"e">>, "user_twice">>
    /\ expression = <<"e", "(", "2", ")">>
    /\ Returned
    /\ outcome.val = Q(4, 1)
    /\ Lookups(outcome.hist) = << <<"lookup", "function", <<"e">>, TRUE>> >>

\* the events of the trace that are no read and no move of pos_
Structural(ev) == ev[1] \notin {"read", "pos"}

\* the last structural event before event i (there is one: the entry of
\* parse_expression)
Before(i) ==
    outcome.trace[CHOOSE j \in 1..(i - 1) :
                     /\ Structural(outcome.trace[j])
                     /\ \A k \in (j + 1)..(i - 1) : ~Structural(outcome.trace[k])]

\* a '^' is taken as the power operator only as the next thing after the ')'
\* of a group or after the return of parse_number
CaretContext ==
    \A i \in EventsOf("caret") :
        \/ Before(i) = <<"closing", "group", ")">>
        \/ Before(i)[1] = "exit" /\ Before(i)[2] = "number"

NumberText(i) ==
    LET j == CHOOSE j \in 1..(i - 1) :
                 /\ outcome.trace[j][1] = "enter" /\ outcome.trace[j][2] = "number"
                 /\ \A k \in (j + 1)..(i - 1) : outcome.trace[k][1] # "enter"
    IN  DropBlanks(SubSeq(expression, outcome.trace[j][3] + 1, outcome.trace[i][3]))

\* digits with at most one '.', then optionally an exponent: 'e' or 'E', an
\* optional sign, and at least one digit
IsNumericLiteral(t) ==
    LET k == FirstIndex(t, LAMBDA c : c \in {"e", "E"})
        mantissa == SubSeq(t, 1, k - 1)
        rest == SubSeq(t, k + 1, Len(t))
        digits == IF rest # <<>> /\ rest[1] \in {"+", "-"} THEN Tail(rest) ELSE rest
    IN  /\ IsLiteral(mantissa)
        /\ k <= Len(t) => (digits # <<>> /\ \A i \in 1..Len(digits) : isdigit(digits[i]))

\* C15: what parse_number accepts and consumes is a numeric literal whose
\* exponent marker, if it has one, is followed by an optional sign and at
\* least one digit: not "2e", not "2e+".
C15_ExponentNeedsDigits ==
    \A i \in EventsOf("exit") :
        outcome.trace[i][2] = "number" => IsNumericLiteral(NumberText(i))

\* a call that throws does so once and does nothing after it; a call that
\* returns has thrown nothing
StopsAtFirstError ==
    /\ Returned => EventsOf("throw") = {}
    /\ outcome.status = "threw" =>
          /\ EventsOf("throw") = {Len(outcome.trace)}
          /\ outcome.trace[Len(outcome.trace)] = <<"throw", outcome.exc[1]>>

\* in a function call the argument is evaluated, then the ')' is checked,
\* then the function is looked up, then it is applied
CallOrder ==
    \A i \in 1..Len(outcome.trace) :
        LET ev == outcome.trace[i]
        IN  /\ (ev[1] = "closing" /\ ev[2] = "call") =>
                  (Before(i)[1] = "exit" /\ Before(i)[2] = "expression")
            /\ (ev[1] = "lookup" /\ ev[2] = "function") =>
                  Before(i) = <<"closing", "call", ")">>
            /\ ev[1] = "apply" =>
                  (Before(i)[1] = "lookup" /\ Before(i)[2] = "function" /\ Before(i)[4])

\* C16: evaluation stops at the first error, and a function call evaluates
\* its argument, then checks the ')', then looks the function up: for the
\* unregistered foo, foo(2/0) ends with the argument's "Division by zero",
\* "foo(2" with "Mismatched parentheses in function call", and "Unknown
\* function" comes only after an argument and its ')'; after an error no
\* character is consumed and no function applied.
C16_FirstErrorInCallOrder ==
    /\ StopsAtFirstError
    /\ CallOrder
    /\ (Evaluated /\ expression = <<"f", "o", "o", "(", "2", "/", "0", ")">>)
          => Threw("domain_error", "Division by zero", <<>>)
    /\ (Evaluated /\ expression = <<"f", "o", "o", "(", "2">>)
          => Threw("runtime_error", "Mismatched parentheses in function call", <<>>)
    /\ (Evaluated /\ expression = <<"f", "o", "o", "(", "2", ")">>)
          => Threw("runtime_error", "Unknown function: ", <<"f", "o", "o">>)

\* foo(2/0): the division threw, and foo was never looked up
C16_Witness ==
    /\ expression = <<"f", "o", "o", "(", "2", "/", "0", ")">>
    /\ Threw("domain_error", "Division by zero", <<>>)
    /\ Lookups(outcome.hist) = <<>>
    /\ outcome.trace[Len(outcome.trace)] = <<"throw", "domain_error">>

\* the most productions in progress at once, from event i on, with open in
\* progress and most the highest count so far
RECURSIVE Deepest(_, _, _)
Deepest(i, open, most) ==
    IF i > Len(outcome.trace) THEN most
    ELSE IF outcome.trace[i][1] = "enter"
         THEN Deepest(i + 1, open + 1, IF open + 1 > most THEN open + 1 ELSE most)
    ELSE IF outcome.trace[i][1] = "exit" THEN Deepest(i + 1, open - 1, most)
    ELSE Deepest(i + 1, open, most)

\* from event i on, with the productions in progress: a production entered
\* while a call of the same production is in progress is entered at a
\* greater position
RECURSIVE NestedEntriesAdvance(_, _)
NestedEntriesAdvance(i, stack) ==
    IF i > Len(outcome.trace) THEN TRUE
    ELSE LET ev == outcome.trace[i]
         IN  IF ev[1] = "enter"
             THEN /\ \A k \in 1..Len(stack) : stack[k][2] = ev[2] => stack[k][3] < ev[3]
                  /\ NestedEntriesAdvance(i + 1, <<ev>> \o stack)
             ELSE IF ev[1] = "exit" THEN NestedEntriesAdvance(i + 1, Tail(stack))
             ELSE NestedEntriesAdvance(i + 1, stack)

\* the nesting of production calls is at most three per character consumed
\* (parse_expression, parse_term, parse_factor) and three at the start
DepthBounded ==
    /\ outcome.exc # <<"unmodelled", "depth", <<>>>>
    /\ Deepest(1, 0, 0) <= 3 * (Len(expression) + 1)
    /\ NestedEntriesAdvance(1, <<>>)

\* a step of evaluate ends with a number or with an error, and is not cut
\* at MaxDepth
EndsWithOutcome ==
    /\ outcome'.status \in {"returned", "threw"}
    /\ outcome'.exc # <<"unmodelled", "depth", <<>>>>

\* C17: every evaluate call ends, with a number or an error, on every text
\* (evaluate is one step here: it ends when the step is defined and is not
\* cut at MaxDepth), and the nesting of production calls stays within a
\* bound linear in the length of the text, 3 * (length + 1), since a
\* production is entered again only after a character was consumed.
C17_TerminatesWithinDepth ==
    /\ []DepthBounded
    /\ [][EvaluateStep => EndsWithOutcome]_vars

\* "((((": fifteen productions in progress when the text ends
C17_Witness ==
    /\ expression = <<"(", "(", "(", "(">>
    /\ Threw("runtime_error", "Unexpected end of expression", <<>>)
    /\ Deepest(1, 0, 0) = 15
====
